---- MODULE Spec2Model ----
(***************************************************************************)
(* Model of search_crawler.py: KeywordCrawler.search, fetch_pages,         *)
(* _parse_results, _extract_text_preview, run and main.                    *)
(*                                                                         *)
(* Strings whose content matters (text previews, error messages, HTML      *)
(* text) are sequences of one-character strings.  An optional value        *)
(* (SearchResult.page, the output file) is a sequence of length 0 (None /  *)
(* no file) or 1.                                                          *)
(***************************************************************************)
EXTENDS Integers, Sequences, FiniteSets, TLC

(* ---------------------------- bounds ----------------------------------- *)
\* largest --max-results tried
MaxResultsArg == 3
\* largest --max-pages tried
MaxPagesArg == 3
\* number of negative values tried for each of the two arguments
NegArgs == 2
\* largest number of div.result__body blocks in one results document
MaxBlocks == 2
\* largest number of blocks in a document passed to _parse_results directly
MaxParseBlocks == 3
\* largest number of nodes in a body passed to _extract_text_preview directly
MaxNodes == 2
\* largest limit passed to _extract_text_preview directly
MaxLimit == 4

(* ---------------------------- helpers ---------------------------------- *)
Min(a, b) == IF a < b THEN a ELSE b
Max(a, b) == IF a > b THEN a ELSE b

\* the first n elements of s (none when n <= 0, all when n >= Len(s))
Take(s, n) == SubSeq(s, 1, Min(Max(n, 0), Len(s)))

RECURSIVE Flatten(_)
Flatten(ss) == IF ss = <<>> THEN <<>> ELSE Head(ss) \o Flatten(Tail(ss))

(* ---------------------- the external world ----------------------------- *)
UrlA == "https://a.example/x"
UrlB == "https://b.example/y"
\* link_tag.get("href") of an <a> without the attribute
None == "None"

\* a div.result__body block: has it an a.result__a, and what is its href
Blocks ==
    { [link |-> TRUE,  href |-> UrlA, title |-> "A", snippet |-> "sa"],
      [link |-> TRUE,  href |-> UrlB, title |-> "B", snippet |-> ""],
      [link |-> TRUE,  href |-> "",   title |-> "E", snippet |-> "se"],
      [link |-> TRUE,  href |-> None, title |-> "N", snippet |-> ""],
      [link |-> FALSE, href |-> None, title |-> "",  snippet |-> "sx"] }

\* the results documents the search endpoint may answer with
Documents == UNION { [1..n -> Blocks] : n \in 0..MaxBlocks }

\* outcomes of session.post: an exception of the transport, or a response
PostOutcomes ==
    { [kind |-> "exc", status_code |-> 0, doc |-> <<>>] }
    \cup { [kind |-> "resp", status_code |-> 503, doc |-> <<>>] }
    \cup { [kind |-> "resp", status_code |-> 200, doc |-> d] : d \in Documents }

\* an HTML body: nodes in document order, each a tag and the text inside it
\* ("" is a text node outside any element of interest)
BodyHello ==
    << [tag |-> "script", text |-> <<"b","a","d">>],
       [tag |-> "",       text |-> <<" ","H","i"," ">>],
       [tag |-> "",       text |-> <<" ">>],
       [tag |-> "p",      text |-> <<"y","o">>] >>
BodyEmpty == <<>>

\* the default of the limit parameter of _extract_text_preview
PreviewLimit == 400

\* f"Request failed: {error}"
RequestFailed == <<"R","e","q","u","e","s","t"," ","f","a","i","l","e","d",":"," ">>

\* str(error) of a requests.RequestException: empty, or a message (it names
\* the url and the cause) that with the prefix is one character over the limit
LongError == [i \in 1..(PreviewLimit - Len(RequestFailed) + 1) |-> "x"]
Errors == { <<>>, LongError }

\* outcomes of session.get
GetOutcomes ==
    { [kind |-> "exc", status_code |-> 0, text |-> <<>>, error |-> e] : e \in Errors }
    \cup { [kind |-> "resp", status_code |-> 200, text |-> BodyHello, error |-> <<>>],
           [kind |-> "resp", status_code |-> 404, text |-> BodyEmpty, error |-> <<>>] }

(* ---------------------- pure functions of the code --------------------- *)
\* urlparse(url).netloc
Netloc(url) ==
    CASE url = UrlA -> "a.example"
      [] url = UrlB -> "b.example"
      [] OTHER -> ""

\* SearchResult(title, url, snippet, source), page defaulting to None
SearchResult(block) ==
    [title |-> block.title, url |-> block.href, snippet |-> block.snippet,
     source |-> Netloc(block.href), page |-> <<>>]

\* mutant: the test of the href is left out
BlockKept_LinkOnly(block) == block.link

\* `if not link_tag: continue` and `if not url: continue`
BlockKept(block) == block.link /\ block.href # None /\ block.href # ""

RECURSIVE _parse_results(_)
_parse_results(doc) ==
    IF doc = <<>> THEN <<>>
    ELSE IF BlockKept(Head(doc))
         THEN <<SearchResult(Head(doc))>> \o _parse_results(Tail(doc))
         ELSE _parse_results(Tail(doc))

IsSpace(c) == c \in {" ", "\n", "\t"}

RECURSIVE LStrip(_)
LStrip(s) == IF s # <<>> /\ IsSpace(Head(s)) THEN LStrip(Tail(s)) ELSE s

RECURSIVE RStrip(_)
RStrip(s) ==
    IF s # <<>> /\ IsSpace(s[Len(s)]) THEN RStrip(SubSeq(s, 1, Len(s) - 1)) ELSE s

Strip(s) == RStrip(LStrip(s))

\* mutant: noscript nodes are not removed
Decompose_KeepsNoscript(html) ==
    SelectSeq(html, LAMBDA n : n.tag \notin {"script", "style"})

\* tag.decompose() for every script, style and noscript node
Decompose(html) ==
    SelectSeq(html, LAMBDA n : n.tag \notin {"script", "style", "noscript"})

\* soup.stripped_strings: the stripped text of every node, empty ones left out
RECURSIVE StrippedStrings(_)
StrippedStrings(html) ==
    IF html = <<>> THEN <<>>
    ELSE IF Strip(Head(html).text) = <<>>
         THEN StrippedStrings(Tail(html))
         ELSE <<Strip(Head(html).text)>> \o StrippedStrings(Tail(html))

\* " ".join(parts)
RECURSIVE JoinSpace(_)
JoinSpace(parts) ==
    IF parts = <<>> THEN <<>>
    ELSE IF Len(parts) = 1 THEN Head(parts)
         ELSE Head(parts) \o <<" ">> \o JoinSpace(Tail(parts))

\* s[:n] of Python: a negative n counts from the end
PySliceTo(s, n) ==
    IF n >= 0 THEN SubSeq(s, 1, Min(n, Len(s)))
    ELSE SubSeq(s, 1, Max(Len(s) + n, 0))

_extract_text_preview(html, limit) ==
    PySliceTo(JoinSpace(StrippedStrings(Decompose(html))), limit)

\* f"Request failed: {error}"
FailurePreview(error) == RequestFailed \o error

PageContent(url, status, text_preview) ==
    [url |-> url, status |-> status, text_preview |-> text_preview]

\* mutant: raise_for_status() left out
RaisesForStatus_Never(status_code) == FALSE

\* response.raise_for_status(): an HTTPError for a 4xx or 5xx status
RaisesForStatus(status_code) == status_code >= 400 /\ status_code < 600

(* ------------------------------ state ---------------------------------- *)
VARIABLES
    max_results,   \* args.max_results
    max_pages,     \* args.max_pages
    pc,            \* the statement the single thread of control is at
    results,       \* the list search builds and run keeps
    offset,        \* search: the "s" parameter of the next request
    new_results,   \* search: the page parsed last
    cursor,        \* search: position of the for loop in new_results
    to_fetch,      \* fetch_pages: results[: max_pages], as indices into results
    index,         \* fetch_pages: enumerate(to_fetch, start=1)
    output,        \* the output file: <<>> until written, then <<its content>>
    printed,       \* what main printed: <<>> or <<the count>>
    log,           \* the calls made to the session and to time.sleep, in order
    arg,           \* the argument of a direct call of a helper method
    ret            \* what that call returned

vars == <<max_results, max_pages, pc, results, offset, new_results, cursor,
          to_fetch, index, output, printed, log, arg, ret>>

\* session.post with data "s" = s, its outcome, and what the body parsed to
PostEvent(s, r, parsed) ==
    [op |-> "POST", phase |-> "search", s |-> s, kind |-> r.kind,
     status_code |-> r.status_code, parsed |-> parsed, text |-> <<>>]
\* session.get of the url of to_fetch[i], its outcome and the body received
GetEvent(i, r) ==
    [op |-> "GET", phase |-> "fetch", s |-> i, kind |-> r.kind,
     status_code |-> r.status_code, parsed |-> <<>>, text |-> r.text]
\* time.sleep(self.delay), called from search or from fetch_pages
SleepEvent(phase) ==
    [op |-> "SLEEP", phase |-> phase, s |-> 0, kind |-> "", status_code |-> 0,
     parsed |-> <<>>, text |-> <<>>]

Init ==
    /\ max_results \in (0 - NegArgs)..MaxResultsArg
    /\ max_pages \in (0 - NegArgs)..MaxPagesArg
    /\ pc = "main"
    /\ results = <<>>
    /\ offset = 0
    /\ new_results = <<>>
    /\ cursor = 0
    /\ to_fetch = <<>>
    /\ index = 0
    /\ output = <<>>
    /\ printed = <<>>
    /\ log = <<>>
    /\ arg = <<>>
    /\ ret = <<>>

(* ------------------------------ search --------------------------------- *)
\* main calls run, run builds the crawler and calls search: results = [], offset = 0
SearchBegin ==
    /\ pc = "main"
    /\ results' = <<>>
    /\ offset' = 0
    /\ pc' = "search_while"
    /\ UNCHANGED <<arg, ret, max_results, max_pages, new_results, cursor, to_fetch, index,
                   output, printed, log>>

\* mutant: the loop test lets one more request through
WhileCond_LessEq(n, limit) == n <= limit

\* while len(results) < self.max_results
WhileCond(n, limit) == n < limit

SearchWhile ==
    /\ pc = "search_while"
    /\ pc' = IF WhileCond(Len(results), max_results) THEN "search_post" ELSE "search_return"
    /\ UNCHANGED <<arg, ret, max_results, max_pages, results, offset, new_results, cursor,
                   to_fetch, index, output, printed, log>>

\* mutant: no `if not new_results: break`, an empty page is processed like
\* any other page
SearchPost_NoEmptyBreak ==
    /\ pc = "search_post"
    /\ \E r \in PostOutcomes :
         IF r.kind = "exc" \/ RaisesForStatus(r.status_code)
         THEN /\ log' = Append(log, PostEvent(offset, r, <<>>))
              /\ pc' = "raised"
              /\ UNCHANGED <<new_results, cursor>>
         ELSE /\ log' = Append(log, PostEvent(offset, r, _parse_results(r.doc)))
              /\ new_results' = _parse_results(r.doc)
              /\ cursor' = IF _parse_results(r.doc) = <<>> THEN 0 ELSE 1
              /\ pc' = IF _parse_results(r.doc) = <<>> THEN "search_offset"
                       ELSE "search_for"
    /\ UNCHANGED <<arg, ret, max_results, max_pages, results, offset, to_fetch,
                   index, output, printed>>

\* mutant: a page without results is taken for a failure of the search
SearchPost_EmptyRaises ==
    /\ pc = "search_post"
    /\ \E r \in PostOutcomes :
         IF r.kind = "exc" \/ RaisesForStatus(r.status_code)
         THEN /\ log' = Append(log, PostEvent(offset, r, <<>>))
              /\ pc' = "raised"
              /\ UNCHANGED <<new_results, cursor>>
         ELSE /\ log' = Append(log, PostEvent(offset, r, _parse_results(r.doc)))
              /\ new_results' = _parse_results(r.doc)
              /\ cursor' = 1
              /\ pc' = IF _parse_results(r.doc) = <<>> THEN "raised"
                       ELSE "search_for"
    /\ UNCHANGED <<arg, ret, max_results, max_pages, results, offset, to_fetch,
                   index, output, printed>>

\* session.post, raise_for_status, _parse_results, `if not new_results: break`
SearchPost ==
    /\ pc = "search_post"
    /\ \E r \in PostOutcomes :
         IF r.kind = "exc" \/ RaisesForStatus(r.status_code)
         THEN /\ log' = Append(log, PostEvent(offset, r, <<>>))
              /\ pc' = "raised"
              /\ UNCHANGED <<new_results, cursor>>
         ELSE /\ log' = Append(log, PostEvent(offset, r, _parse_results(r.doc)))
              /\ new_results' = _parse_results(r.doc)
              /\ cursor' = 1
              /\ pc' = IF _parse_results(r.doc) = <<>> THEN "search_return"
                       ELSE "search_for"
    /\ UNCHANGED <<arg, ret, max_results, max_pages, results, offset, to_fetch, index,
                   output, printed>>

\* mutant: the cap is tested one result too late
CapReached_Greater(n, limit) == n > limit

\* if len(results) >= self.max_results: break
CapReached(n, limit) == n >= limit

\* mutant: a result whose url was seen before is dropped
SearchFor_Dedup ==
    /\ pc = "search_for"
    /\ results' = IF \E i \in 1..Len(results) : results[i].url = new_results[cursor].url
                  THEN results
                  ELSE Append(results, new_results[cursor])
    /\ IF CapReached(Len(results'), max_results) \/ cursor = Len(new_results)
       THEN pc' = "search_offset" /\ UNCHANGED cursor
       ELSE pc' = "search_for" /\ cursor' = cursor + 1
    /\ UNCHANGED <<arg, ret, max_results, max_pages, offset, new_results, to_fetch, index,
                   output, printed, log>>

\* one iteration of `for result in new_results`
SearchFor ==
    /\ pc = "search_for"
    /\ results' = Append(results, new_results[cursor])
    /\ IF CapReached(Len(results) + 1, max_results) \/ cursor = Len(new_results)
       THEN pc' = "search_offset" /\ UNCHANGED cursor
       ELSE pc' = "search_for" /\ cursor' = cursor + 1
    /\ UNCHANGED <<arg, ret, max_results, max_pages, offset, new_results, to_fetch, index,
                   output, printed, log>>

\* mutant: the offset advances by the number of results kept
NextOffset_Kept(off, page, kept) == off + kept

\* offset += len(new_results); kept is how many of the page were appended
NextOffset(off, page, kept) == off + Len(page)

SearchOffset ==
    /\ pc = "search_offset"
    /\ offset' = NextOffset(offset, new_results, cursor)
    /\ pc' = "search_sleep"
    /\ UNCHANGED <<arg, ret, max_results, max_pages, results, new_results, cursor, to_fetch,
                   index, output, printed, log>>

\* time.sleep(self.delay) at the end of the while body
SearchSleep ==
    /\ pc = "search_sleep"
    /\ log' = Append(log, SleepEvent("search"))
    /\ pc' = "search_while"
    /\ UNCHANGED <<arg, ret, max_results, max_pages, results, offset, new_results, cursor,
                   to_fetch, index, output, printed>>

(* ---------------------------- fetch_pages ------------------------------ *)
\* mutant: the whole list is fetched, max_pages ignored
Selected_All(n, limit) == n

\* results[: self.max_pages]: the slice holds the same objects as results
Selected(n, limit) == Len(PySliceTo([i \in 1..n |-> i], limit))

\* mutant: fetch_pages hands back the slice and run keeps it as the results
FetchBegin_KeepsSlice ==
    /\ pc = "search_return"
    /\ to_fetch' = [i \in 1..Selected(Len(results), max_pages) |-> i]
    /\ results' = SubSeq(results, 1, Selected(Len(results), max_pages))
    /\ index' = 1
    /\ pc' = IF Selected(Len(results), max_pages) = 0 THEN "write" ELSE "fetch_get"
    /\ UNCHANGED <<arg, ret, max_results, max_pages, offset, new_results, cursor,
                   output, printed, log>>

\* return results (search); crawler.fetch_pages(results); to_fetch = results[: max_pages]
FetchBegin ==
    /\ pc = "search_return"
    /\ to_fetch' = [i \in 1..Selected(Len(results), max_pages) |-> i]
    /\ index' = 1
    /\ pc' = IF Selected(Len(results), max_pages) = 0 THEN "write" ELSE "fetch_get"
    /\ UNCHANGED <<arg, ret, max_results, max_pages, results, offset, new_results, cursor,
                   output, printed, log>>

\* mutant: the sleep follows every entry, the last one too
SleepsAfter_Always(i, n) == i <= n

\* if index < len(to_fetch)
SleepsAfter(i, n) == i < n

\* mutant: no except clause, the exception of session.get leaves fetch_pages
FetchGet_NoExcept ==
    /\ pc = "fetch_get"
    /\ \E r \in GetOutcomes :
         /\ log' = Append(log, GetEvent(index, r))
         /\ IF r.kind = "exc"
            THEN pc' = "raised" /\ UNCHANGED results
            ELSE /\ results' = [results EXCEPT ![to_fetch[index]].page =
                        <<PageContent(results[to_fetch[index]].url, r.status_code,
                                      _extract_text_preview(r.text, PreviewLimit))>>]
                 /\ pc' = IF SleepsAfter(index, Len(to_fetch)) THEN "fetch_sleep"
                          ELSE "write"
    /\ UNCHANGED <<arg, ret, max_results, max_pages, offset, new_results, cursor, to_fetch,
                   index, output, printed>>

\* mutant: the pages are fetched from inside the pagination loop, which goes
\* on after the last GET while the cap is not reached
FetchGet_ThenSearch ==
    /\ pc = "fetch_get"
    /\ \E r \in GetOutcomes :
         /\ log' = Append(log, GetEvent(index, r))
         /\ results' = [results EXCEPT ![to_fetch[index]].page =
                 <<PageContent(results[to_fetch[index]].url,
                               IF r.kind = "exc" THEN 0 ELSE r.status_code,
                               IF r.kind = "exc" THEN FailurePreview(r.error)
                               ELSE _extract_text_preview(r.text, PreviewLimit))>>]
    /\ pc' = IF SleepsAfter(index, Len(to_fetch)) THEN "fetch_sleep"
             ELSE IF Len(results) < max_results THEN "search_post"
             ELSE "write"
    /\ UNCHANGED <<arg, ret, max_results, max_pages, offset, new_results, cursor,
                   to_fetch, index, output, printed>>

\* mutant: raise_for_status() is called on the page too, so that a 4xx or 5xx
\* answer is recorded as a failed request
FetchGet_RaiseForStatus ==
    /\ pc = "fetch_get"
    /\ \E r \in GetOutcomes :
         LET failed == r.kind = "exc" \/ RaisesForStatus(r.status_code)
         IN /\ log' = Append(log, GetEvent(index, r))
            /\ results' = [results EXCEPT ![to_fetch[index]].page =
                    <<PageContent(results[to_fetch[index]].url,
                                  IF failed THEN 0 ELSE r.status_code,
                                  IF failed THEN FailurePreview(r.error)
                                  ELSE _extract_text_preview(r.text, PreviewLimit))>>]
    /\ pc' = IF SleepsAfter(index, Len(to_fetch)) THEN "fetch_sleep"
             ELSE "write"
    /\ UNCHANGED <<arg, ret, max_results, max_pages, offset, new_results, cursor,
                   to_fetch, index, output, printed>>

\* mutant: the page is attached to every result that has the url fetched
FetchGet_ByUrl ==
    /\ pc = "fetch_get"
    /\ \E r \in GetOutcomes :
         /\ log' = Append(log, GetEvent(index, r))
         /\ results' = [i \in 1..Len(results) |->
                 IF results[i].url = results[to_fetch[index]].url
                 THEN [results[i] EXCEPT !.page =
                         <<PageContent(results[i].url,
                               IF r.kind = "exc" THEN 0 ELSE r.status_code,
                               IF r.kind = "exc" THEN FailurePreview(r.error)
                               ELSE _extract_text_preview(r.text, PreviewLimit))>>]
                 ELSE results[i]]
    /\ pc' = IF SleepsAfter(index, Len(to_fetch)) THEN "fetch_sleep"
             ELSE "write"
    /\ UNCHANGED <<arg, ret, max_results, max_pages, offset, new_results, cursor,
                   to_fetch, index, output, printed>>

\* the try statement and result.page = PageContent(...)
FetchGet ==
    /\ pc = "fetch_get"
    /\ \E r \in GetOutcomes :
         LET result == results[to_fetch[index]]
             status == IF r.kind = "exc" THEN 0 ELSE r.status_code
             preview == IF r.kind = "exc" THEN FailurePreview(r.error)
                        ELSE _extract_text_preview(r.text, PreviewLimit)
         IN /\ log' = Append(log, GetEvent(index, r))
            /\ results' = [results EXCEPT ![to_fetch[index]].page =
                              <<PageContent(result.url, status, preview)>>]
    /\ pc' = IF SleepsAfter(index, Len(to_fetch)) THEN "fetch_sleep"
             ELSE "write"
    /\ UNCHANGED <<arg, ret, max_results, max_pages, offset, new_results, cursor, to_fetch,
                   index, output, printed>>

\* time.sleep(self.delay), then the next entry of enumerate, if there is one
FetchSleep ==
    /\ pc = "fetch_sleep"
    /\ log' = Append(log, SleepEvent("fetch"))
    /\ IF index < Len(to_fetch)
       THEN index' = index + 1 /\ pc' = "fetch_get"
       ELSE pc' = "write" /\ UNCHANGED index
    /\ UNCHANGED <<arg, ret, max_results, max_pages, results, offset, new_results, cursor,
                   to_fetch, output, printed>>

(* ---------------------------- run and main ----------------------------- *)
\* json.dump([asdict(result) for result in results], file)
WriteOutput ==
    /\ pc = "write"
    /\ output' = <<results>>
    /\ pc' = "print"
    /\ UNCHANGED <<arg, ret, max_results, max_pages, results, offset, new_results, cursor,
                   to_fetch, index, printed, log>>

\* print(f"Saved {args.max_results} results ...")
PrintSaved ==
    /\ pc = "print"
    /\ printed' = <<max_results>>
    /\ pc' = "done"
    /\ UNCHANGED <<arg, ret, max_results, max_pages, results, offset, new_results, cursor,
                   to_fetch, index, output, log>>

Next ==
    \/ SearchBegin
    \/ SearchWhile
    \/ SearchPost
    \/ SearchFor
    \/ SearchOffset
    \/ SearchSleep
    \/ FetchBegin
    \/ FetchGet
    \/ FetchSleep
    \/ WriteOutput
    \/ PrintSaved

Spec == Init /\ [][Next]_vars

(* ------------------- direct calls of the helper methods --------------- *)
\* the crawler's own state, untouched by a helper method
CrawlerIdle ==
    /\ max_results = 0
    /\ max_pages = 0
    /\ results = <<>>
    /\ offset = 0
    /\ new_results = <<>>
    /\ cursor = 0
    /\ to_fetch = <<>>
    /\ index = 0
    /\ output = <<>>
    /\ printed = <<>>
    /\ log = <<>>

\* the documents _parse_results is called with
ParseDocuments == UNION { [1..n -> Blocks] : n \in 0..MaxParseBlocks }

ParseInit ==
    /\ CrawlerIdle
    /\ pc = "parse_call"
    /\ arg \in ParseDocuments
    /\ ret = <<>>

\* self._parse_results(soup)
ParseCall ==
    /\ pc = "parse_call"
    /\ ret' = _parse_results(arg)
    /\ pc' = "parse_done"
    /\ UNCHANGED <<arg, max_results, max_pages, results, offset, new_results,
                   cursor, to_fetch, index, output, printed, log>>

ParseNext == ParseCall

ParseSpec == ParseInit /\ [][ParseNext]_vars

\* the nodes of a body: text outside any element, in a <p>, or in a node of
\* one of the three kinds that are removed
HtmlTags == {"", "p", "script", "style", "noscript"}
HtmlTexts == { <<" ">>, <<"a">>, <<" ","b"," ","c","\n">> }
HtmlNodes == [tag : HtmlTags, text : HtmlTexts]
HtmlBodies == UNION { [1..n -> HtmlNodes] : n \in 0..MaxNodes }

ExtractInit ==
    /\ CrawlerIdle
    /\ pc = "extract_call"
    /\ arg \in [html : HtmlBodies, limit : 0..MaxLimit]
    /\ ret = <<>>

\* self._extract_text_preview(html, limit)
ExtractCall ==
    /\ pc = "extract_call"
    /\ ret' = _extract_text_preview(arg.html, arg.limit)
    /\ pc' = "extract_done"
    /\ UNCHANGED <<arg, max_results, max_pages, results, offset, new_results,
                   cursor, to_fetch, index, output, printed, log>>

ExtractNext == ExtractCall

ExtractSpec == ExtractInit /\ [][ExtractNext]_vars

\* every call returns (a request within its timeout, a sleep after its delay)
\* and the one thread of control then takes its next step
FairSpec == Spec /\ WF_vars(Next)

TypeOK ==
    /\ pc \in {"main", "search_while", "search_post", "search_for", "search_offset",
               "search_sleep", "search_return", "fetch_get", "fetch_sleep",
               "write", "print", "done", "raised",
               "parse_call", "parse_done", "extract_call", "extract_done"}
    /\ Len(output) <= 1
    /\ Len(printed) <= 1

(* ------------------------- reading the log ----------------------------- *)
IsPost(e) == e.op = "POST"
IsGet(e) == e.op = "GET"
IsSleep(e) == e.op = "SLEEP"
\* the request did not give a usable response: no response, or a 4xx/5xx one
Failed(e) == e.kind = "exc" \/ e.status_code >= 400

\* fetch_pages has returned
FetchReturned == pc \in {"write", "print", "done"}
\* search has returned
SearchReturned ==
    pc \in {"search_return", "fetch_get", "fetch_sleep", "write", "print", "done"}

HasPage(r) == r.page # <<>>

(* ------------------------------ C1 ------------------------------------- *)
\* C1: a GET that fails at transport level does not leave fetch_pages: its
\* entry gets a PageContent with status 0 and a non-empty text_preview, the
\* run is not aborted, and once fetch_pages has returned every selected
\* entry has been requested and has its own PageContent.
C1_FetchFailureIsolated ==
    \A k \in 1..Len(log) :
        (IsGet(log[k]) /\ log[k].kind = "exc") =>
            /\ pc # "raised"
            /\ HasPage(results[to_fetch[log[k].s]])
            /\ results[to_fetch[log[k].s]].page[1].status = 0
            /\ results[to_fetch[log[k].s]].page[1].text_preview # <<>>
            /\ FetchReturned =>
                  \A i \in 1..Len(to_fetch) :
                      /\ HasPage(results[to_fetch[i]])
                      /\ \E m \in 1..Len(log) : IsGet(log[m]) /\ log[m].s = i

\* a failed GET with an empty error text, followed by a later GET
C1_Witness ==
    /\ pc = "done"
    /\ \E k \in 1..Len(log), m \in 1..Len(log) :
          /\ k < m
          /\ IsGet(log[k]) /\ log[k].kind = "exc"
          /\ results[to_fetch[log[k].s]].page[1].text_preview = RequestFailed
          /\ IsGet(log[m]) /\ log[m].kind = "resp"

(* ------------------------------ C2 ------------------------------------- *)
\* C2: a pagination request that fails (no response, or a 4xx/5xx response)
\* is the last call of the run: the run has raised, search returned nothing
\* to fetch_pages, no GET was issued and no output was written or reported.
C2_SearchFailureAborts ==
    \A k \in 1..Len(log) :
        (IsPost(log[k]) /\ Failed(log[k])) =>
            /\ k = Len(log)
            /\ pc = "raised"
            /\ ~SearchReturned
            /\ to_fetch = <<>>
            /\ output = <<>>
            /\ printed = <<>>

\* a later pagination request answered 503 after results had accumulated
C2_Witness ==
    /\ pc = "raised"
    /\ results # <<>>
    /\ log[Len(log)].status_code = 503

(* ------------------------------ C3 ------------------------------------- *)
\* C3: once fetch_pages has returned, with max_pages >= 0, the results with
\* a page are exactly the first min(max_pages, len(results)) entries.
C3_PagePrefix ==
    (FetchReturned /\ max_pages >= 0) =>
        /\ \A i \in 1..Len(results) :
              HasPage(results[i]) <=> i <= Min(max_pages, Len(results))
        /\ Cardinality({i \in 1..Len(results) : HasPage(results[i])})
              = Min(max_pages, Len(results))

\* more results than max_pages, and at least one page fetched
C3_Witness ==
    /\ FetchReturned
    /\ max_pages >= 1
    /\ Len(results) > max_pages
    /\ HasPage(results[max_pages])
    /\ ~HasPage(results[Len(results)])

(* ------------------------------ C4 ------------------------------------- *)
Gets == SelectSeq(log, IsGet)
WithPage == {i \in 1..Len(results) : HasPage(results[i])}

\* C4: for every integer max_pages, at most max(max_pages, 0) GET requests are
\* issued and at most that many PageContent records are created; with
\* max_pages <= 0 there is no GET and no page.
C4_AtMostMaxPages ==
    /\ Len(Gets) <= Max(max_pages, 0)
    /\ Cardinality(WithPage) <= Max(max_pages, 0)

(* ------------------------------ C5 ------------------------------------- *)
SearchSleeps == SelectSeq(log, LAMBDA e : IsSleep(e) /\ e.phase = "search")
Posts == SelectSeq(log, IsPost)

\* C5: with max_results <= 0 search issues no request, performs no wait,
\* does not fail, and the list it builds and returns is empty.
C5_NoRequestWhenNonPositive ==
    max_results <= 0 =>
        /\ Posts = <<>>
        /\ SearchSleeps = <<>>
        /\ results = <<>>
        /\ pc # "raised"

\* search has returned with max_results <= 0
C5_Witness ==
    /\ max_results <= 0
    /\ pc = "search_return"
    /\ results = <<>>

(* ------------------------------ C6 ------------------------------------- *)
\* C6: the number of accumulated results, in the loop and in what is written,
\* never exceeds max(max_results, 0).
C6_CountBounded ==
    /\ Len(results) <= Max(max_results, 0)
    /\ output # <<>> => Len(output[1]) <= Max(max_results, 0)

\* the cap was reached with results of the page left over
C6_Witness ==
    /\ pc = "search_offset"
    /\ cursor < Len(new_results)
    /\ Len(results) = max_results

(* ------------------------------ C7 ------------------------------------- *)
RECURSIVE BeforeEmpty(_)
BeforeEmpty(pages) ==
    IF pages = <<>> \/ Head(pages) = <<>> THEN <<>>
    ELSE <<Head(pages)>> \o BeforeEmpty(Tail(pages))

\* the results of the pages received before the first empty page, concatenated
Scanned == Flatten(BeforeEmpty([k \in 1..Len(Posts) |-> Posts[k].parsed]))

WithoutPage(r) == [r EXCEPT !.page = <<>>]

\* C7: when no pagination request failed, the list search returns is the
\* first min(max_results, T) elements of the concatenation of the pages
\* received before the first empty page (T its length), and the list written
\* after fetch_pages is that same list, in the same order, pages aside.
C7_RankOrderPrefix ==
    (\A k \in 1..Len(Posts) : ~Failed(Posts[k])) =>
        /\ pc = "search_return" =>
              results = Take(Scanned, Min(max_results, Len(Scanned)))
        /\ output # <<>> =>
              [i \in 1..Len(output[1]) |-> WithoutPage(output[1][i])]
                  = Take(Scanned, Min(max_results, Len(Scanned)))

\* two pages, the second cut by the cap, and a url kept twice
C7_Witness ==
    /\ pc = "done"
    /\ Len(Posts) = 2
    /\ Len(Scanned) > max_results
    /\ Len(output[1]) = 3
    /\ output[1][1].url = output[1][3].url

(* ------------------------------ C8 ------------------------------------- *)
\* the results parsed from the pages received by the first k calls of the log
ParsedUpTo(k) == Flatten([j \in 1..k |-> log[j].parsed])

\* C8: every pagination request carries as offset the number of results
\* parsed from the pages received before it (0 for the first); after a page
\* is processed the offset is the number parsed so far, kept or not; the
\* offsets of successive requests strictly increase.
C8_OffsetCountsScanned ==
    /\ \A k \in 1..Len(log) : IsPost(log[k]) => log[k].s = Len(ParsedUpTo(k - 1))
    /\ pc \in {"search_sleep", "search_while", "search_post", "search_return"} =>
          offset = Len(ParsedUpTo(Len(log)))
    /\ \A j \in 1..Len(Posts), k \in 1..Len(Posts) : j < k => Posts[j].s < Posts[k].s

\* the second page was cut by the cap: more results scanned than kept
C8_Witness ==
    /\ pc = "search_sleep"
    /\ Len(Posts) = 2
    /\ Posts[2].s > 0
    /\ offset > Len(results)

(* ------------------------------ C9 ------------------------------------- *)
\* C9: every wait of search comes after a pagination request and, once
\* search has returned, is followed by another pagination request.
C9_SearchWaitsBetweenRequests ==
    \A k \in 1..Len(log) :
        (IsSleep(log[k]) /\ log[k].phase = "search") =>
            /\ \E j \in 1..(k - 1) : IsPost(log[j])
            /\ SearchReturned => \E m \in (k + 1)..Len(log) : IsPost(log[m])

(* ------------------------------ C10 ------------------------------------ *)
FetchLog == SelectSeq(log, LAMBDA e : e.phase = "fetch")

\* C10: the calls of fetch_pages alternate GET, wait, GET, ...: the i-th GET
\* is for the i-th selected entry, a wait only follows an entry that is not
\* the last; with k = min(max_pages, len(results)) >= 1, fetch_pages returns
\* after exactly k GETs and k - 1 waits, whatever the GETs' outcomes.
C10_FetchWaitsBetweenGets ==
    /\ \A i \in 1..Len(FetchLog) :
          IF i % 2 = 1
          THEN IsGet(FetchLog[i]) /\ FetchLog[i].s = (i + 1) \div 2
          ELSE IsSleep(FetchLog[i]) /\ i \div 2 < Len(to_fetch)
    /\ (FetchReturned /\ Min(max_pages, Len(results)) >= 1) =>
          /\ Len(Gets) = Min(max_pages, Len(results))
          /\ Len(FetchLog) = 2 * Min(max_pages, Len(results)) - 1

\* three entries fetched, the second GET failed, two waits in between
C10_Witness ==
    /\ pc = "done"
    /\ Len(FetchLog) = 5
    /\ FetchLog[3].kind = "exc"
    /\ IsSleep(FetchLog[2]) /\ IsSleep(FetchLog[4])

(* ------------------------------ C11 ------------------------------------ *)
\* C11: every pagination request comes before every GET of fetch_pages: a GET
\* is only in the log once search has returned, and no pagination request
\* follows a GET.  (Each call blocks the single thread of control, so the
\* order of the log is the order in which the requests are in flight.)
C11_SearchBeforeFetch ==
    /\ Gets # <<>> => SearchReturned
    /\ pc \in {"fetch_get", "fetch_sleep"} => SearchReturned
    /\ \A j \in 1..Len(log), k \in 1..Len(log) :
          (IsPost(log[j]) /\ IsGet(log[k])) => j < k

\* a run with two pagination requests and two GETs
C11_Witness ==
    /\ pc = "done"
    /\ Len(Posts) >= 2
    /\ Len(Gets) >= 2
    /\ Len(results) < max_results

(* ------------------------------ C12 ------------------------------------ *)
\* C12: every PageContent has a text_preview of at most 400 characters,
\* normalized text and failure description alike.
C12_PreviewAtMostLimit ==
    \A i \in 1..Len(results) :
        HasPage(results[i]) => Len(results[i].page[1].text_preview) <= PreviewLimit

(* ------------------------------ C13 ------------------------------------ *)
\* C13: for every GET of the log, the page of its entry has status 0 exactly
\* when the GET raised; when a response came, status is its status code (404
\* too), text_preview is the normalized text of its body, and the entry was
\* requested once only.
C13_StatusEchoesResponse ==
    \A k \in 1..Len(log) :
        IsGet(log[k]) =>
            LET page == results[to_fetch[log[k].s]].page[1]
            IN /\ HasPage(results[to_fetch[log[k].s]])
               /\ page.status = 0 <=> log[k].kind = "exc"
               /\ log[k].kind = "resp" =>
                     /\ page.status = log[k].status_code
                     /\ page.text_preview =
                           _extract_text_preview(log[k].text, PreviewLimit)
               /\ \A m \in 1..Len(log) :
                     (IsGet(log[m]) /\ log[m].s = log[k].s) => m = k

\* a 404 answer kept as status 404, next to a failed GET and a 200
C13_Witness ==
    /\ pc = "done"
    /\ Len(Gets) = 3
    /\ Gets[1].status_code = 404 /\ results[1].page[1].status = 404
    /\ Gets[2].kind = "exc" /\ results[2].page[1].status = 0
    /\ Gets[3].status_code = 200 /\ results[3].page[1].text_preview # <<>>

(* ------------------------------ C14 ------------------------------------ *)
\* the last pagination request got a page, and the page had results
LastPageNonEmpty ==
    /\ Posts # <<>>
    /\ ~Failed(Posts[Len(Posts)])
    /\ Posts[Len(Posts)].parsed # <<>>
LastPageEmpty ==
    /\ Posts # <<>>
    /\ ~Failed(Posts[Len(Posts)])
    /\ Posts[Len(Posts)].parsed = <<>>

\* search has stopped: it returned, or a request failed
SearchStopped == SearchReturned \/ pc = "raised"

C14_StopsExactlyWhen ==
    /\ Len(Posts) <= Max(max_results, 0)
    /\ pc = "search_return" => (Len(results) >= max_results \/ LastPageEmpty)
    /\ pc = "raised" => Failed(Posts[Len(Posts)])
    /\ pc = "search_post" =>
          (Len(results) < max_results /\ (Posts = <<>> \/ LastPageNonEmpty))

\* C14: when every call returns, search stops, whatever max_results is and
\* whatever the endpoint answers; it stops exactly when the cap is reached, a
\* page has no results or a request failed (another request is issued only
\* below the cap and after a non-empty page), and it issues at most
\* max(max_results, 0) pagination requests.
C14_SearchTerminates == [](C14_StopsExactlyWhen) /\ <>SearchStopped

\* as many requests as max_results allows, each answered with one result
C14_Witness ==
    /\ pc = "search_return"
    /\ max_results = 3
    /\ Len(Posts) = 3
    /\ Len(results) = 3

(* ------------------------------ C15 ------------------------------------ *)
\* results with their pages taken off
Bare(rs) == [i \in 1..Len(rs) |-> WithoutPage(rs[i])]

\* C15: a pagination request answered with a page of zero results ends search
\* without an error: search has returned, what it returned is what the
\* earlier pages had accumulated, and no pagination request and no wait of
\* search comes after it in the log.
C15_EmptyPageStops ==
    \A k \in 1..Len(log) :
        (IsPost(log[k]) /\ ~Failed(log[k]) /\ log[k].parsed = <<>>) =>
            /\ pc # "raised"
            /\ SearchReturned
            /\ Bare(results) = ParsedUpTo(k - 1)
            /\ \A m \in (k + 1)..Len(log) : log[m].phase = "fetch"

\* an empty second page after a first page with results
C15_Witness ==
    /\ pc = "done"
    /\ Len(Posts) = 2
    /\ LastPageEmpty
    /\ Len(results) = 2
    /\ Len(Gets) = 2

(* ------------------------------ C16 ------------------------------------ *)
InFetchPages == pc \in {"search_return", "fetch_get", "fetch_sleep"}

\* C16: a step of fetch_pages keeps the length and order of results and the
\* title, url, snippet and source of every result; it changes page fields of
\* the selected prefix only, and a result after the prefix has no page.
C16_FetchFrame ==
    [][InFetchPages =>
          /\ Len(results') = Len(results)
          /\ \A i \in 1..Len(results) :
                /\ results'[i].title = results[i].title
                /\ results'[i].url = results[i].url
                /\ results'[i].snippet = results[i].snippet
                /\ results'[i].source = results[i].source
                /\ i > Len(to_fetch') =>
                      (results'[i].page = <<>> /\ results[i].page = <<>>)]_vars

\* fetch_pages has returned: two of three results selected, both with a page
C16_Witness ==
    /\ pc = "write"
    /\ Len(results) = 3
    /\ Len(to_fetch) = 2
    /\ results[1].page # <<>> /\ results[2].page # <<>>
    /\ results[3].page = <<>>
    /\ results[3].snippet = "sa"

(* ------------------------------ C17 ------------------------------------ *)
C17_PageState ==
    /\ ~SearchReturned =>
          /\ \A i \in 1..Len(results) : ~HasPage(results[i])
          /\ \A i \in 1..Len(new_results) : ~HasPage(new_results[i])
    /\ \A i \in 1..Len(results) :
          HasPage(results[i]) => results[i].page[1].url = results[i].url
    /\ FetchReturned =>
          \A i \in 1..Len(to_fetch) :
              Cardinality({k \in 1..Len(log) : IsGet(log[k]) /\ log[k].s = i}) = 1

C17_PageStep ==
    \A i \in 1..Len(results) :
        HasPage(results[i]) =>
            (Len(results') >= i /\ results'[i].page = results[i].page)

\* C17: no result has a page before the fetch phase; a page that is present
\* echoes the url of its result and is never replaced or removed by a later
\* step; every selected entry is requested exactly once, also when two
\* selected entries have the same url.
C17_PageSetOnce == [](C17_PageState) /\ [][C17_PageStep]_vars

\* two selected entries with the same url, each with the page of its own GET
C17_Witness ==
    /\ pc = "done"
    /\ Len(to_fetch) >= 2
    /\ results[1].url = results[2].url
    /\ results[1].page[1].status = 200
    /\ results[2].page[1].status = 0

(* ------------------------------ C18 ------------------------------------ *)
\* C18: the count main reports is the number of results written.
C18_ReportedCountIsWritten ==
    printed # <<>> => (output # <<>> /\ printed[1] = Len(output[1]))

(* ------------------------------ C19 ------------------------------------ *)
\* the positions of the blocks with a link whose href is there and not empty
Linked(doc) ==
    {i \in 1..Len(doc) : doc[i].link /\ doc[i].href # None /\ doc[i].href # ""}

\* the j-th smallest element of a set of numbers
Nth(S, j) == CHOOSE i \in S : Cardinality({m \in S : m < i}) = j - 1

\* C19: _parse_results returns one result per block that has a link with a
\* non-empty href, in document order, made of that block's link and snippet;
\* no result has an empty url and no other block shows in the list, wherever
\* the dropped blocks are.
C19_ParseKeepsLinkedBlocks ==
    pc = "parse_done" =>
        /\ Len(ret) = Cardinality(Linked(arg))
        /\ \A j \in 1..Len(ret) :
              /\ ret[j].url = arg[Nth(Linked(arg), j)].href
              /\ ret[j].title = arg[Nth(Linked(arg), j)].title
              /\ ret[j].snippet = arg[Nth(Linked(arg), j)].snippet
              /\ ret[j].url # "" /\ ret[j].url # None
              /\ ret[j].page = <<>>

\* a dropped block between two kept ones: the parse went on after it
C19_Witness ==
    /\ pc = "parse_done"
    /\ Len(arg) = 3
    /\ arg[1].href = UrlB /\ arg[2].href = "" /\ arg[3].href = UrlA
    /\ Len(ret) = 2
    /\ ret[1].url = UrlB /\ ret[2].url = UrlA

(* ------------------------------ C20 ------------------------------------ *)
\* s without the white space at its two ends, by position
Trimmed(s) ==
    LET black == {i \in 1..Len(s) : ~IsSpace(s[i])}
    IN IF black = {} THEN <<>>
       ELSE SubSeq(s, CHOOSE i \in black : \A m \in black : i <= m,
                      CHOOSE i \in black : \A m \in black : i >= m)

\* node i is outside script, style and noscript and has text to show
Content(html, i) ==
    /\ html[i].tag # "script" /\ html[i].tag # "style" /\ html[i].tag # "noscript"
    /\ Trimmed(html[i].text) # <<>>

\* the trimmed segments of the first n nodes, joined by single spaces
RECURSIVE JoinedUpTo(_, _)
JoinedUpTo(html, n) ==
    IF n = 0 THEN <<>>
    ELSE IF ~Content(html, n) THEN JoinedUpTo(html, n - 1)
    ELSE IF JoinedUpTo(html, n - 1) = <<>> THEN Trimmed(html[n].text)
    ELSE JoinedUpTo(html, n - 1) \o <<" ">> \o Trimmed(html[n].text)

\* C20: for limit >= 0, _extract_text_preview returns the first limit
\* characters of the single-space join of the trimmed non-empty segments
\* outside script, style and noscript; never more than limit characters,
\* and the empty string for an empty body.
C20_PreviewIsCutJoin ==
    pc = "extract_done" =>
        /\ ret = Take(JoinedUpTo(arg.html, Len(arg.html)), arg.limit)
        /\ Len(ret) <= arg.limit
        /\ arg.html = <<>> => ret = <<>>

\* a noscript node dropped, two segments joined, the join cut inside a word
C20_Witness ==
    /\ pc = "extract_done"
    /\ arg.limit = 4
    /\ Len(arg.html) = 2
    /\ arg.html[1] = [tag |-> "noscript", text |-> <<"a">>]
    /\ arg.html[2] = [tag |-> "p", text |-> <<" ","b"," ","c","\n">>]
    /\ ret = <<"b"," ","c">>
====
